---- MODULE Spec2Model ----
(***************************************************************************)
(* Model of server/script.py: the ContextChatbot session object (index,    *)
(* query chain, conversation memory), its document loading with staging of *)
(* S3 objects, and the command line entry point main().                    *)
(***************************************************************************)
EXTENDS Integers, Sequences, FiniteSets, TLC

\* ------------------------------------------------------------------------
\* Bounds of the model
\* ------------------------------------------------------------------------
MaxTurns == 11      \* successful queries recorded before the model stops asking
MaxBuilds == 2      \* indexes built in one session

\* ------------------------------------------------------------------------
\* Program constants
\* ------------------------------------------------------------------------
None == 0           \* self.vectorstore = None / self.qa_chain = None
K == 10             \* ConversationBufferWindowMemory(k=10)

Questions == {"q1", "q2"}
Answers == {"a1"}

VARIABLES
    vectorstore,    \* None or the id of the index self.vectorstore holds
    qa_chain,       \* None or the id of the index the chain's retriever reads
    memory,         \* self.memory.chat_memory.messages, oldest first
    built,          \* number of indexes built so far (next index id - 1)
    result,         \* value returned by the last session operation
    op,             \* the last session operation and how its calls went
    lpc,            \* position of the running load_documents call
    file_paths,     \* its file_paths list (extended by the downloads)
    s3_paths,       \* its s3_paths list
    s3_client,      \* TRUE iff self.s3_client is set
    temp_dir,       \* its temp_dir local: NoDir or the directory's name
    tmpfs,          \* staging directories that exist: name -> (filename -> content)
    documents,      \* its documents list
    pending,        \* TRUE iff an exception is propagating out of the try block
    mpc,            \* position of the command line process
    args,           \* its parsed arguments
    response        \* what it printed last and its exit code

session_vars == <<vectorstore, qa_chain, memory, built, result, op>>
load_vars == <<lpc, file_paths, s3_paths, s3_client, temp_dir, tmpfs, documents, pending>>
main_vars == <<mpc, args, response>>
vars == <<session_vars, load_vars, main_vars>>

\* a method that returned None, and one that raised e
Returned == [returned |-> "None"]
Raised(e) == [raised |-> e]

\* ------------------------------------------------------------------------
\* Conversation memory (ConversationBufferWindowMemory, k = K)
\* ------------------------------------------------------------------------
Human(q) == <<"human", q>>
AI(a) == <<"ai", a>>

\* the last n elements of s
LastN(s, n) == IF Len(s) <= n THEN s ELSE SubSeq(s, Len(s) - n + 1, Len(s))

\* variant of window: the whole buffer, no window applied
window_unbounded(m) == m

\* memory.buffer: the last K exchanges, two messages each
window(m) == LastN(m, 2 * K)

\* save_context: the question and the answer are recorded together
save_context(m, q, a) == m \o <<Human(q), AI(a)>>

\* number of whole turns in a message list
Turns(m) == Len(m) \div 2

\* ------------------------------------------------------------------------
\* query
\* ------------------------------------------------------------------------
NotReadyResult ==
    [answer |-> "Please upload documents first before asking questions.",
     sources |-> <<>>, error |-> "No documents loaded"]

ErrorResult(e) ==
    [answer |-> "An error occurred while processing your question", sources |-> <<>>,
     error |-> e]

OkResult(q, a, ix) == [answer |-> a, sources |-> <<ix>>, question |-> q]

ChainOutcomes == {"ok", "embedding_error", "llm_error"}

\* variant of query: no check that a chain exists, the call on None raises
\* and is reported by the except branch
query_unguarded(question, outcome, a) ==
    /\ op' = [name |-> "query", arg |-> question, outcome |-> outcome,
              before |-> Len(memory)]
    /\ UNCHANGED load_vars
    /\ IF qa_chain # None /\ outcome = "ok"
       THEN /\ Turns(memory) < MaxTurns
            /\ memory' = save_context(memory, question, a)
            /\ result' = OkResult(question, a, qa_chain)
            /\ UNCHANGED <<vectorstore, qa_chain, built>>
       ELSE /\ qa_chain = None => outcome = "ok"
            /\ result' = ErrorResult(IF qa_chain = None THEN "not callable" ELSE outcome)
            /\ UNCHANGED <<vectorstore, qa_chain, memory, built>>

\* variant of query: the question is recorded before the chain is called,
\* the answer after it
query_half(question, outcome, a) ==
    /\ op' = [name |-> "query", arg |-> question, outcome |-> outcome,
              before |-> Len(memory)]
    /\ UNCHANGED load_vars
    /\ IF qa_chain = None
       THEN /\ outcome = "ok"
            /\ result' = NotReadyResult
            /\ UNCHANGED <<vectorstore, qa_chain, memory, built>>
       ELSE IF outcome = "ok"
            THEN /\ Turns(memory) < MaxTurns
                 /\ memory' = save_context(memory, question, a)
                 /\ result' = OkResult(question, a, qa_chain)
                 /\ UNCHANGED <<vectorstore, qa_chain, built>>
            ELSE /\ Turns(memory) < MaxTurns
                 /\ memory' = Append(memory, Human(question))
                 /\ result' = ErrorResult(outcome)
                 /\ UNCHANGED <<vectorstore, qa_chain, built>>

\* query(question): outcome is how the chain call went, a the text the
\* language model returned
query(question, outcome, a) ==
    /\ op' = [name |-> "query", arg |-> question, outcome |-> outcome,
              before |-> Len(memory)]
    /\ UNCHANGED load_vars
    /\ IF qa_chain = None
       THEN /\ outcome = "ok"
            /\ result' = NotReadyResult
            /\ UNCHANGED <<vectorstore, qa_chain, memory, built>>
       ELSE IF outcome = "ok"
            THEN /\ Turns(memory) < MaxTurns
                 /\ memory' = save_context(memory, question, a)
                 /\ result' = OkResult(question, a, qa_chain)
                 /\ UNCHANGED <<vectorstore, qa_chain, built>>
            ELSE /\ result' = ErrorResult(outcome)
                 /\ UNCHANGED <<vectorstore, qa_chain, memory, built>>

\* ------------------------------------------------------------------------
\* reset_conversation
\* ------------------------------------------------------------------------
\* variant of reset_conversation: the whole session is reset
reset_conversation_all ==
    /\ UNCHANGED load_vars
    /\ memory' = <<>>
    /\ result' = Returned
    /\ op' = [name |-> "reset", arg |-> "", outcome |-> "ok", before |-> Len(memory)]
    /\ vectorstore' = None
    /\ qa_chain' = None
    /\ UNCHANGED built

reset_conversation ==
    /\ UNCHANGED load_vars
    /\ memory' = <<>>
    /\ result' = Returned
    /\ op' = [name |-> "reset", arg |-> "", outcome |-> "ok", before |-> Len(memory)]
    /\ UNCHANGED <<vectorstore, qa_chain, built>>

\* ------------------------------------------------------------------------
\* process_documents / load_vectorstore
\* ------------------------------------------------------------------------
DocCounts == 0..2
BuildOutcomes == {"ok", "index_error", "chain_error"}

\* rebuild steps shared by process_documents and load_vectorstore: the
\* vector store is assigned first, the chain is created afterwards
Rebuild(outcome) ==
    /\ built < MaxBuilds
    /\ IF outcome = "index_error"
       THEN UNCHANGED <<vectorstore, qa_chain, built>>
       ELSE /\ built' = built + 1
            /\ vectorstore' = built + 1
            /\ qa_chain' = IF outcome = "ok" THEN built + 1 ELSE qa_chain

\* process_documents(documents): ndocs is len(documents); an exception of
\* the build propagates to the caller
process_documents(ndocs, outcome) ==
    /\ UNCHANGED memory
    /\ UNCHANGED load_vars
    /\ IF ndocs = 0
       THEN /\ outcome = "ok"
            /\ op' = [name |-> "process", arg |-> "", outcome |-> "empty",
                      before |-> Len(memory)]
            /\ result' = Returned
            /\ UNCHANGED <<vectorstore, qa_chain, built>>
       ELSE /\ Rebuild(outcome)
            /\ op' = [name |-> "process", arg |-> "", outcome |-> outcome,
                      before |-> Len(memory)]
            /\ result' = IF outcome = "ok" THEN Returned ELSE Raised(outcome)

\* load_vectorstore(path): every exception is caught and printed
load_vectorstore(outcome) ==
    /\ UNCHANGED memory
    /\ UNCHANGED load_vars
    /\ Rebuild(outcome)
    /\ op' = [name |-> "load_vectorstore", arg |-> "", outcome |-> outcome,
              before |-> Len(memory)]
    /\ result' = Returned

\* ------------------------------------------------------------------------
\* The files and objects a load can be given
\* ------------------------------------------------------------------------
MaxItems == 2       \* longest file_paths and s3_paths list given to a load

NoFiles == [f \in {} |-> "none"]
NoDir == ""         \* temp_dir = None

\* a file name is <<stem, suffix>>; a local path is a directory and a name
File(d, stem, ext) == [dir |-> d, file |-> <<stem, ext>>]

LocalPaths ==
    {File("docs", "a", ".txt"), File("docs", "gone", ".pdf"),
     File("docs", "pic", ".png"), File("docs", "bad", ".csv"),
     File("docs", "rep", ".PDF")}

\* content of a local path, "missing" when Path.exists() is false
LocalFS(p) ==
    CASE p = File("docs", "a", ".txt") -> "A"
      [] p = File("docs", "pic", ".png") -> "I"
      [] p = File("docs", "bad", ".csv") -> "B"
      [] p = File("docs", "rep", ".PDF") -> "P"
      [] OTHER -> "missing"

\* an S3 path is its text cut at the '/' after the optional "s3://" prefix;
\* every part is a <<stem, suffix>> name, <<"", "">> after a trailing '/'
S3Path(scheme, parts) == [scheme |-> scheme, parts |-> parts]
Seg(n) == <<n, "">>

S3Paths ==
    {S3Path(TRUE, <<Seg("bkt"), Seg("x"), <<"r", ".txt">>>>),
     S3Path(FALSE, <<Seg("bkt"), Seg("y"), <<"r", ".txt">>>>),
     S3Path(FALSE, <<Seg("nokey")>>),
     S3Path(FALSE, <<Seg("bkt"), <<"missing", ".txt">>>>),
     S3Path(TRUE, <<Seg("bkt"), Seg("dir"), Seg("")>>),
     S3Path(FALSE, <<Seg("bkt"), <<"big", ".pdf">>>>)}

\* the object behind bucket/key: its content, "absent" when head_object
\* raises ClientError, "download_error" when download_file raises
S3Store(bucket, key) ==
    CASE bucket = Seg("bkt") /\ key = <<Seg("x"), <<"r", ".txt">>>> -> "X"
      [] bucket = Seg("bkt") /\ key = <<Seg("y"), <<"r", ".txt">>>> -> "Y"
      [] bucket = Seg("bkt") /\ key = <<Seg("dir"), Seg("")>> -> "D"
      [] bucket = Seg("bkt") /\ key = <<<<"big", ".pdf">>>> -> "download_error"
      [] OTHER -> "absent"

\* str.lower() on a suffix
Lower(ext) ==
    CASE ext = ".PDF" -> ".pdf"
      [] ext = ".TXT" -> ".txt"
      [] OTHER -> ext

SupportedExtensions == {".pdf", ".txt", ".csv", ".doc", ".docx", ".xls", ".xlsx"}

\* loader.load() on a file of content c: the number of documents it gives,
\* -1 when it raises
Pages(c) ==
    CASE c = "P" -> 2
      [] c = "B" -> -1
      [] OTHER -> 1

\* os.path.basename
basename(parts) == parts[Len(parts)]

\* f"s3_file_{n}.bin"
s3_file(n) ==
    CASE n = 0 -> <<"s3_file_0", ".bin">>
      [] n = 1 -> <<"s3_file_1", ".bin">>
      [] n = 2 -> <<"s3_file_2", ".bin">>
      [] OTHER -> <<"s3_file_n", ".bin">>

\* f overridden at key k
Put(f, k, v) == [x \in DOMAIN f \cup {k} |-> IF x = k THEN v ELSE f[x]]

\* ------------------------------------------------------------------------
\* download_from_s3
\* ------------------------------------------------------------------------
\* one pass of the for loop: st is [local_files, staged]
RECURSIVE DownloadItems(_, _, _)
DownloadItems(paths, dir, st) ==
    IF paths = <<>> THEN st
    ELSE LET s3_path == Head(paths)
             parts == s3_path.parts
             bucket_name == parts[1]
             key == Tail(parts)
             filename == IF basename(key) = Seg("")
                         THEN s3_file(Len(st.local_files))
                         ELSE basename(key)
             next ==
                 IF Len(parts) < 2 THEN st
                 ELSE IF S3Store(bucket_name, key) \in {"absent", "download_error"}
                 THEN st
                 ELSE [local_files |->
                           Append(st.local_files, [dir |-> dir, file |-> filename]),
                       staged |-> Put(st.staged, filename, S3Store(bucket_name, key))]
         IN  DownloadItems(Tail(paths), dir, next)

download_from_s3(paths, dir) ==
    DownloadItems(paths, dir, [local_files |-> <<>>, staged |-> NoFiles])

\* ------------------------------------------------------------------------
\* load_documents
\* ------------------------------------------------------------------------
\* content read at a path: a staged file, or a local one
ReadPath(p, fs) ==
    IF p.dir \in DOMAIN fs
    THEN IF p.file \in DOMAIN fs[p.dir] THEN fs[p.dir][p.file] ELSE "missing"
    ELSE LocalFS(p)

\* the first s3_path whose basename is name, <<>> when there is none
RECURSIVE FirstMatch(_, _)
FirstMatch(paths, name) ==
    IF paths = <<>> THEN <<>>
    ELSE IF basename(Head(paths).parts) = name THEN <<Head(paths)>>
    ELSE FirstMatch(Tail(paths), name)

\* metadata of a document of file p
Metadata(p, tdir, spaths) ==
    IF tdir # NoDir /\ p.dir = tdir
    THEN IF FirstMatch(spaths, p.file) # <<>>
         THEN [source |-> p, source_type |-> "s3",
               s3_path |-> FirstMatch(spaths, p.file)[1]]
         ELSE [source |-> p, source_type |-> "s3"]
    ELSE [source |-> p]

\* the documents one pass of the for loop adds for file p
LoadFile(p, fs, tdir, spaths) ==
    LET c == ReadPath(p, fs)
    IN  IF c = "missing" THEN <<>>
        ELSE IF Lower(p.file[2]) \notin SupportedExtensions THEN <<>>
        ELSE IF Pages(c) < 0 THEN <<>>
        ELSE [i \in 1..Pages(c) |->
                 [page_content |-> c, page |-> i, metadata |-> Metadata(p, tdir, spaths)]]

RECURSIVE LoadFiles(_, _, _, _)
LoadFiles(paths, fs, tdir, spaths) ==
    IF paths = <<>> THEN <<>>
    ELSE LoadFile(Head(paths), fs, tdir, spaths)
             \o LoadFiles(Tail(paths), fs, tdir, spaths)

\* name of the directory tempfile.mkdtemp() creates: one that does not exist
TempNames == {"tmp1", "tmp2"}
mkdtemp(fs) == CHOOSE d \in TempNames : d \notin DOMAIN fs

SeqsUpTo(S, n) == UNION {[1..k -> S] : k \in 0..n}

\* the call: file_paths, s3_paths and whether the session has an S3 client
LdCall(fp, sp, client) ==
    /\ lpc = "idle"
    /\ file_paths' = fp
    /\ s3_paths' = sp
    /\ s3_client' = client
    /\ documents' = <<>>
    /\ temp_dir' = NoDir
    /\ lpc' = "stage"
    /\ UNCHANGED <<tmpfs, pending>>
    /\ UNCHANGED session_vars

\* lines 219-225: the staging directory and the downloads; with interrupt
\* the download is left by an exception that none of its handlers takes,
\* after n of the paths
LdStage(interrupt, n) ==
    /\ lpc = "stage"
    /\ IF s3_paths # <<>> /\ s3_client
       THEN LET dir == mkdtemp(tmpfs)
                upto == IF interrupt THEN SubSeq(s3_paths, 1, n) ELSE s3_paths
                got == download_from_s3(upto, dir)
            IN  /\ n \in 0..Len(s3_paths)
                /\ ~interrupt => n = Len(s3_paths)
                /\ interrupt => n < Len(s3_paths)
                /\ temp_dir' = dir
                /\ tmpfs' = Put(tmpfs, dir, got.staged)
                /\ file_paths' = IF interrupt THEN file_paths
                                 ELSE file_paths \o got.local_files
                /\ pending' = interrupt
                /\ lpc' = IF interrupt THEN "finally" ELSE "loop"
       ELSE /\ ~interrupt
            /\ n = Len(s3_paths)
            /\ lpc' = "loop"
            /\ UNCHANGED <<temp_dir, tmpfs, file_paths, pending>>
    /\ UNCHANGED <<s3_paths, s3_client, documents>>
    /\ UNCHANGED session_vars

\* lines 228-268: the loop over the files; with interrupt it is left by an
\* exception that is not an Exception, after n of the files
LdLoop(interrupt, n) ==
    /\ lpc = "loop"
    /\ n \in 0..Len(file_paths)
    /\ ~interrupt => n = Len(file_paths)
    /\ interrupt => n < Len(file_paths)
    /\ documents' = LoadFiles(SubSeq(file_paths, 1, n), tmpfs, temp_dir, s3_paths)
    /\ pending' = interrupt
    /\ lpc' = "finally"
    /\ UNCHANGED <<file_paths, s3_paths, s3_client, temp_dir, tmpfs>>
    /\ UNCHANGED session_vars

\* variant of Cleanup: the directory is removed after the loop, not in a
\* finally block
Cleanup_no_finally(fs, tdir, exc) ==
    IF ~exc /\ tdir # NoDir /\ tdir \in DOMAIN fs
    THEN [d \in DOMAIN fs \ {tdir} |-> fs[d]]
    ELSE fs

\* the directories left once the finally block has run
Cleanup(fs, tdir, exc) ==
    IF tdir # NoDir /\ tdir \in DOMAIN fs
    THEN [d \in DOMAIN fs \ {tdir} |-> fs[d]]
    ELSE fs

\* lines 270-276: the finally block, then the return or the exception
LdFinally ==
    /\ lpc = "finally"
    /\ tmpfs' = Cleanup(tmpfs, temp_dir, pending)
    /\ lpc' = IF pending THEN "raised" ELSE "returned"
    /\ UNCHANGED <<file_paths, s3_paths, s3_client, temp_dir, documents, pending>>
    /\ UNCHANGED session_vars

LoadIdle ==
    /\ lpc = "idle"
    /\ file_paths = <<>>
    /\ s3_paths = <<>>
    /\ s3_client = FALSE
    /\ temp_dir = NoDir
    /\ tmpfs = NoFiles
    /\ documents = <<>>
    /\ pending = FALSE

\* ------------------------------------------------------------------------
\* main
\* ------------------------------------------------------------------------
NoArgs ==
    [action |-> "", files |-> <<>>, s3_paths |-> <<>>, question |-> "",
     s3_bucket |-> "", api_key |-> FALSE, credentials |-> FALSE, output |-> "json"]

NoResponse == [printed |-> "nothing", keys |-> {}, status |-> "", count |-> -1,
               exit |-> -1]

MainIdle ==
    /\ mpc = "start"
    /\ args = NoArgs
    /\ response = NoResponse

\* load_documents run from its call to its return
load_documents(fp, sp, client) ==
    LET staging == sp # <<>> /\ client
        dir == mkdtemp(NoFiles)
        got == IF staging THEN download_from_s3(sp, dir)
               ELSE [local_files |-> <<>>, staged |-> NoFiles]
        fs == IF staging THEN Put(NoFiles, dir, got.staged) ELSE NoFiles
    IN  LoadFiles(fp \o got.local_files, fs, IF staging THEN dir ELSE NoDir, sp)

\* lines 497-507: the result dictionary printed in the format asked for
Output(keys, status, count) ==
    IF args.output = "json"
    THEN [printed |-> "json", keys |-> keys, status |-> status, count |-> count,
          exit |-> 0]
    ELSE [printed |-> "text", keys |-> keys \cap {"answer", "message", "objects"},
          status |-> "", count |-> -1, exit |-> 0]

\* lines 509-521: the except branch
ErrorOutput ==
    IF args.output = "json"
    THEN [printed |-> "json", keys |-> {"status", "error", "message"},
          status |-> "error", count |-> -1, exit |-> 1]
    ELSE [printed |-> "text", keys |-> {"error"}, status |-> "", count |-> -1,
          exit |-> 1]

\* a print of one line followed by sys.exit(1)
EarlyExit == [printed |-> "line", keys |-> {}, status |-> "", count |-> -1, exit |-> 1]

MainFiles == {File("docs", "a", ".txt"), File("docs", "gone", ".pdf")}
MainS3Paths ==
    {S3Path(TRUE, <<Seg("bkt"), Seg("x"), <<"r", ".txt">>>>),
     S3Path(FALSE, <<Seg("bkt"), <<"missing", ".txt">>>>)}

\* parser.parse_args()
MainParse ==
    /\ mpc = "start"
    /\ \E a \in {"load", "query", "reset", "list-s3"},
          f \in SeqsUpTo(MainFiles, MaxItems), s \in SeqsUpTo(MainS3Paths, MaxItems),
          q \in {"", "q1"}, b \in {"", "bkt"}, k \in BOOLEAN, c \in BOOLEAN,
          o \in {"json", "text"} :
            args' = [action |-> a, files |-> f, s3_paths |-> s, question |-> q,
                     s3_bucket |-> b, api_key |-> k, credentials |-> c, output |-> o]
    /\ mpc' = "parsed"
    /\ UNCHANGED <<response, session_vars, load_vars>>

\* lines 434-439 with no Google API key: ContextChatbot raises ValueError
MainNoKey ==
    /\ mpc = "parsed"
    /\ ~args.api_key
    /\ response' = ErrorOutput
    /\ mpc' = "done"
    /\ UNCHANGED <<args, session_vars, load_vars>>

\* lines 441-459
MainLoad ==
    /\ mpc = "parsed"
    /\ args.api_key
    /\ args.action = "load"
    /\ mpc' = "done"
    /\ UNCHANGED args
    /\ IF args.files = <<>> /\ args.s3_paths = <<>>
       THEN /\ response' = EarlyExit
            /\ UNCHANGED <<session_vars, load_vars>>
       ELSE LET docs == load_documents(args.files, args.s3_paths, args.credentials)
            IN  /\ \E o \in BuildOutcomes : process_documents(Len(docs), o)
                /\ response' =
                       IF "raised" \in DOMAIN result' THEN ErrorOutput
                       ELSE Output({"status", "message", "documents_count",
                                    "local_files", "s3_files"}, "success", Len(docs))

\* lines 461-468
MainQuery ==
    /\ mpc = "parsed"
    /\ args.api_key
    /\ args.action = "query"
    /\ mpc' = "done"
    /\ UNCHANGED args
    /\ IF args.question = ""
       THEN /\ response' = EarlyExit
            /\ UNCHANGED <<session_vars, load_vars>>
       ELSE /\ \E o \in ChainOutcomes, a \in Answers : query(args.question, o, a)
            /\ response' = Output(DOMAIN result' \cup {"status"}, "success", -1)

\* lines 470-475
MainReset ==
    /\ mpc = "parsed"
    /\ args.api_key
    /\ args.action = "reset"
    /\ mpc' = "done"
    /\ UNCHANGED args
    /\ reset_conversation
    /\ response' = Output({"status", "message"}, "success", -1)

\* lines 477-494: without an S3 client list_s3_objects raises ValueError
MainListS3 ==
    /\ mpc = "parsed"
    /\ args.api_key
    /\ args.action = "list-s3"
    /\ mpc' = "done"
    /\ UNCHANGED <<args, session_vars, load_vars>>
    /\ response' =
           IF args.s3_bucket = "" THEN EarlyExit
           ELSE IF ~args.credentials THEN ErrorOutput
           ELSE Output({"status", "bucket", "prefix", "objects", "count"}, "success", -1)

SessionInit ==
    /\ vectorstore = None
    /\ qa_chain = None
    /\ memory = <<>>
    /\ built = 0
    /\ result = Returned
    /\ op = [name |-> "init", arg |-> "", outcome |-> "ok", before |-> 0]

DoLdCall ==
    /\ UNCHANGED main_vars
    /\ lpc = "idle"
    /\ \E fp \in SeqsUpTo(LocalPaths, MaxItems), sp \in SeqsUpTo(S3Paths, MaxItems),
          client \in BOOLEAN : LdCall(fp, sp, client)
DoLdStage ==
    /\ UNCHANGED main_vars
    /\ lpc = "stage"
    /\ \E i \in BOOLEAN, n \in 0..Len(s3_paths) : LdStage(i, n)
DoLdLoop ==
    /\ UNCHANGED main_vars
    /\ lpc = "loop"
    /\ \E i \in BOOLEAN, n \in 0..Len(file_paths) : LdLoop(i, n)

DoLdFinally == LdFinally /\ UNCHANGED main_vars

LoadInit == SessionInit /\ LoadIdle /\ MainIdle
LoadNext == DoLdCall \/ DoLdStage \/ DoLdLoop \/ DoLdFinally
SpecLoad == LoadInit /\ [][LoadNext]_vars

MainInit == SessionInit /\ LoadIdle /\ MainIdle
MainNext == MainParse \/ MainNoKey \/ MainLoad \/ MainQuery \/ MainReset \/ MainListS3
SpecMain == MainInit /\ [][MainNext]_vars

\* ------------------------------------------------------------------------
\* The session: any sequence of operations on one ContextChatbot
\* ------------------------------------------------------------------------
Init == SessionInit /\ LoadIdle /\ MainIdle

DoQuery ==
    /\ UNCHANGED main_vars
    /\ \E q \in Questions, o \in ChainOutcomes, a \in Answers : query(q, o, a)
DoReset == reset_conversation /\ UNCHANGED main_vars
DoProcess ==
    /\ UNCHANGED main_vars
    /\ \E n \in DocCounts, o \in BuildOutcomes : process_documents(n, o)
DoLoadVectorstore ==
    /\ UNCHANGED main_vars
    /\ \E o \in BuildOutcomes : load_vectorstore(o)

Next == DoQuery \/ DoReset \/ DoProcess \/ DoLoadVectorstore

Spec == Init /\ [][Next]_vars

\* ------------------------------------------------------------------------
\* Properties of the session
\* ------------------------------------------------------------------------
IsOp(n) == op'.name = n

\* C1: a query on a session whose qa_chain is unset returns the "not ready"
\* result and changes neither the memory nor the index state.
C1_NotReady ==
    [][(IsOp("query") /\ qa_chain = None) =>
          /\ result' = NotReadyResult
          /\ memory' = memory
          /\ vectorstore' = vectorstore
          /\ qa_chain' = qa_chain]_vars

C1_Witness ==
    /\ op.name = "query"
    /\ qa_chain = None
    /\ result = NotReadyResult

\* C2: the memory window never holds more than K turns, oldest first; a
\* successful query on a full window evicts exactly the oldest turn and
\* puts the new turn last, so the window stays at K turns.
C2_WindowFIFO ==
    [][/\ Len(window(memory')) <= 2 * K
       /\ (IsOp("query") /\ op'.outcome = "ok" /\ qa_chain # None) =>
             LET turn == <<Human(op'.arg), AI(result'.answer)>>
             IN  /\ Turns(window(memory)) < K =>
                        window(memory') = window(memory) \o turn
                 /\ Turns(window(memory)) = K =>
                        /\ window(memory') = Tail(Tail(window(memory))) \o turn
                        /\ Turns(window(memory')) = K]_vars

C2_Witness ==
    /\ op.name = "query"
    /\ op.outcome = "ok"
    /\ op.before = 2 * K
    /\ Turns(memory) = K + 1
    /\ Turns(window(memory)) = K

\* C3: a query in Ready whose chain call fails leaves the memory and the
\* index as they were; the memory grows only by one whole turn, and only in
\* a query whose chain call succeeded.
C3_FailedQuery ==
    [][/\ (IsOp("query") /\ qa_chain # None /\ op'.outcome # "ok") =>
             /\ memory' = memory
             /\ vectorstore' = vectorstore
             /\ qa_chain' = qa_chain
       /\ (memory' # memory /\ memory' # <<>>) =>
             /\ IsOp("query")
             /\ op'.outcome = "ok"
             /\ memory' = memory \o <<Human(op'.arg), AI(result'.answer)>>]_vars

C3_Witness ==
    /\ op.name = "query"
    /\ op.outcome = "llm_error"
    /\ qa_chain # None
    /\ op.before > 0
    /\ Len(memory) = op.before

\* C4: reset empties the memory and leaves vectorstore and qa_chain as they
\* were; the query that follows a reset in Ready is answered from the same
\* index and its turn is the only one in the memory.
C4_Reset ==
    [][/\ IsOp("reset") =>
             /\ memory' = <<>>
             /\ vectorstore' = vectorstore
             /\ qa_chain' = qa_chain
       /\ (op.name = "reset" /\ IsOp("query") /\ op'.outcome = "ok"
              /\ qa_chain # None) =>
             /\ result'.sources = <<qa_chain>>
             /\ Turns(memory') = 1]_vars

C4_Witness ==
    /\ op.name = "reset"
    /\ op.before > 0
    /\ qa_chain # None
    /\ memory = <<>>

\* C6: a build that does not complete leaves vectorstore, qa_chain and the
\* memory as they were, and qa_chain never reads an index other than the
\* current vectorstore.
C6_NoPartialBuild ==
    [][/\ (op'.name \in {"process", "load_vectorstore"} /\ op'.outcome # "ok") =>
             /\ vectorstore' = vectorstore
             /\ qa_chain' = qa_chain
             /\ memory' = memory
       /\ qa_chain' # None => qa_chain' = vectorstore']_vars

\* C10: the session is either Empty (no index, no chain) or Ready (an index
\* and a chain bound to it); a load of at least one document that completes
\* ends in Ready with the chain bound to the index it built; Ready is never
\* left.
Empty == vectorstore = None /\ qa_chain = None
Ready == vectorstore # None /\ qa_chain = vectorstore

C10_TwoStates ==
    [][/\ (Empty \/ Ready)'
       /\ (IsOp("process") /\ op'.outcome = "ok") =>
             /\ Ready'
             /\ qa_chain' = built'
             /\ built' = built + 1
       /\ Ready => Ready']_vars

\* ------------------------------------------------------------------------
\* Properties of load_documents
\* ------------------------------------------------------------------------
\* what a document list holds, metadata aside
Contents(docs) == [i \in 1..Len(docs) |-> <<docs[i].page_content, docs[i].page>>]

\* the documents of a content c read under file name f
DocsOf(c, f) ==
    IF c \in {"missing", "absent", "download_error"} THEN <<>>
    ELSE IF Lower(f[2]) \notin SupportedExtensions THEN <<>>
    ELSE IF Pages(c) < 0 THEN <<>>
    ELSE [i \in 1..Pages(c) |-> <<c, i>>]

\* the documents of the local items, then of the S3 objects, each item on
\* its own and in the order given
RECURSIVE ItemsLocal(_)
ItemsLocal(paths) ==
    IF paths = <<>> THEN <<>>
    ELSE DocsOf(LocalFS(Head(paths)), Head(paths).file) \o ItemsLocal(Tail(paths))

RECURSIVE ItemsS3(_)
ItemsS3(paths) ==
    IF paths = <<>> THEN <<>>
    ELSE LET parts == Head(paths).parts
             own == IF Len(parts) < 2 THEN <<>>
                    ELSE DocsOf(S3Store(parts[1], Tail(parts)), basename(parts))
         IN  own \o ItemsS3(Tail(paths))

GivenLocal == SelectSeq(file_paths, LAMBDA p : p.dir \notin TempNames)

\* C7: a per-item failure never aborts the batch; the list returned is the
\* concatenation, in input order, of the documents of the items that loaded.
C7_BatchConcat ==
    lpc = "returned" =>
        Contents(documents) =
            ItemsLocal(GivenLocal) \o (IF s3_client THEN ItemsS3(s3_paths) ELSE <<>>)

\* C8: a staging directory created by a load does not exist any more when
\* the load has returned or raised.
C8_StagingReleased ==
    lpc \in {"returned", "raised"} =>
        /\ temp_dir \notin DOMAIN tmpfs
        /\ DOMAIN tmpfs = {}

C8_Witness ==
    /\ lpc = "raised"
    /\ temp_dir # NoDir
    /\ temp_dir \notin DOMAIN tmpfs
    /\ Len(s3_paths) = 2

\* ------------------------------------------------------------------------
\* Properties of main
\* ------------------------------------------------------------------------
\* C5: a load action given some path and ending with no document reports
\* status error, never status success with 0 documents.
C5_EmptyLoadIsError ==
    (/\ mpc = "done"
     /\ args.api_key
     /\ args.action = "load"
     /\ args.files # <<>> \/ args.s3_paths # <<>>
     /\ load_documents(args.files, args.s3_paths, args.credentials) = <<>>) =>
        /\ response.status = "error"
        /\ ~(response.status = "success" /\ response.count = 0)

\* C9: however the process finishes, what it printed carries a status that
\* is success or error, and a message.
C9_StatusAlways ==
    mpc = "done" =>
        /\ response.status \in {"success", "error"}
        /\ "status" \in response.keys
        /\ "message" \in response.keys

\* TRUE iff document doc was loaded from a file of the staging directory
Fetched(doc) == doc.metadata.source.dir \in TempNames

\* C11: the source-type tag tells the externally fetched documents from the
\* local ones, and every externally fetched document carries the S3 path of
\* the object its content was downloaded from, whatever paths were given.
C11_Provenance ==
    lpc = "returned" =>
        \A i \in 1..Len(documents) :
            LET doc == documents[i]
                md == doc.metadata
            IN  /\ Fetched(doc) <=> ("source_type" \in DOMAIN md /\ md.source_type = "s3")
                /\ Fetched(doc) =>
                      /\ "s3_path" \in DOMAIN md
                      /\ \E j \in 1..Len(s3_paths) : s3_paths[j] = md.s3_path
                      /\ S3Store(md.s3_path.parts[1], Tail(md.s3_path.parts))
                             = doc.page_content

====
